---- MODULE Spec2Model ----
(***************************************************************************)
(* Row-level read policies of the genealogy database (profiles, people,    *)
(* families, children, events, media), the privacy_level column default,   *)
(* the SEC-05 reclassification UPDATE, the person form (personSchema,      *)
(* defaultPersonValues) and the creation of events by the add-event dialog.*)
(***************************************************************************)
EXTENDS Integers, FiniteSets, Sequences, TLC

\* Number of rows the people table may hold.
MaxPeople == 1

\* Consecutive runs of the SEC-05 UPDATE that are told apart.
MaxSweepRuns == 2

NULL == "NULL"

\* Primary keys of people, as text, so that a person_id column holds a key or NULL.
PersonIds == {ToString(i) : i \in 1..MaxPeople}

(***************************************************************************)
(* Actors.  auth.uid() is NULL for a request without a session; the admin  *)
(* policy looks the uid up in profiles and requires role = 'admin'.        *)
(***************************************************************************)
Actors == {"Anonymous", "Member", "Admin"}

AuthUid(actor) ==
    CASE actor = "Anonymous" -> NULL
      [] actor = "Member"    -> "uid-member"
      [] actor = "Admin"     -> "uid-admin"

\* Rows of the profiles table: one member account and one admin account.
profiles ==
    { [user_id |-> "uid-member", role |-> "member"],
      [user_id |-> "uid-admin",  role |-> "admin"] }

(***************************************************************************)
(* Columns.  The people columns are the fields of personSchema; the event  *)
(* columns are the fields handleSubmit passes to createEvent.              *)
(***************************************************************************)
ContactFields == {"phone", "email", "zalo", "facebook", "address"}

PeopleColumns ==
    { "handle", "display_name", "first_name", "middle_name", "surname",
      "pen_name", "taboo_name", "gender", "generation", "chi",
      "birth_date", "birth_year", "birth_place",
      "death_date", "death_year", "death_place", "death_lunar",
      "is_living", "is_patrilineal",
      "phone", "email", "zalo", "facebook", "address", "hometown",
      "occupation", "biography", "notes", "avatar_url",
      "privacy_level" }

EventColumns ==
    { "title", "event_type", "person_id", "event_lunar", "event_date",
      "location", "description", "recurring" }

Kinds == {"profiles", "people", "families", "children", "events", "media"}

Columns(kind) ==
    CASE kind = "people"   -> PeopleColumns
      [] kind = "events"   -> EventColumns
      [] kind = "profiles" -> {"user_id", "role"}
      [] kind = "media"    -> {"id", "person_id"}
      [] OTHER             -> {"id"}

(***************************************************************************)
(* Contact bundles written into a person row: nothing, or exactly one of   *)
(* the five contact columns.                                               *)
(***************************************************************************)
ContactValue(f) ==
    CASE f = "phone"    -> "0900000000"
      [] f = "email"    -> "a@example.org"
      [] f = "zalo"     -> "0900000000"
      [] f = "facebook" -> "https://facebook.com/a"
      [] f = "address"  -> "1 Main Street"

ContactBundles ==
    { [f \in ContactFields |-> NULL] }
    \cup { [f \in ContactFields |-> IF f = g THEN ContactValue(g) ELSE NULL]
             : g \in ContactFields }

PersonRow(id, level, living, contact) ==
    [ id            |-> id,
      privacy_level |-> level,
      is_living     |-> living,
      phone         |-> contact["phone"],
      email         |-> contact["email"],
      zalo          |-> contact["zalo"],
      facebook      |-> contact["facebook"],
      address       |-> contact["address"] ]

VARIABLES
    people,     \* people table: id -> row, for the ids inserted so far
    events,     \* events table: the person_id of each event row
    lastRead,   \* the answer to the latest SELECT, until the next write
    lastSweep,  \* the latest statements, while they are runs of the SEC-05 UPDATE
    dialog,     \* state of the mounted add-event dialog
    created     \* what the latest createEvent call of the dialog was given

vars == <<people, events, lastRead, lastSweep, dialog, created>>

NoRead == [kind |-> "none"]

NoSweep == [runs |-> 0]

NoEvent == [event_type |-> "none"]

\* Event types of the type selector: commemoration and another type.
EventTypes == {"gio", "other"}

\* useState initial values of the dialog.
DialogInit ==
    [ eventType      |-> "gio",
      selectedPerson |-> NULL,
      title          |-> "",
      eventLunar     |-> "" ]

(***************************************************************************)
(* SELECT policies.  Each takes the requesting uid and the row; the        *)
(* policies of one table are permissive, so a row is returned when any of  *)
(* them holds.                                                             *)
(***************************************************************************)
\* Variant: the policy this migration replaces, USING (true).
AuthenticatedUsersCanReadProfiles_UsingTrue(uid, row) ==
    TRUE

AuthenticatedUsersCanReadProfiles(uid, row) ==
    uid # NULL

\* Variant: the facebook column is left out of the safety net.
PublicReadForPublicNonContactPeople_NoFacebook(uid, row) ==
    /\ row.privacy_level = 0
    /\ row.phone = NULL
    /\ row.email = NULL
    /\ row.zalo = NULL
    /\ row.address = NULL

\* Variant: the zalo column is tested for a value instead of for NULL.
PublicReadForPublicNonContactPeople_ZaloSet(uid, row) ==
    /\ row.privacy_level = 0
    /\ row.phone = NULL
    /\ row.email = NULL
    /\ row.zalo # NULL
    /\ row.facebook = NULL
    /\ row.address = NULL

\* Variant: a policy for requests without a session only (TO anon) that
\* keeps the safety net and omits the privacy_level test.
PublicReadForPublicNonContactPeople_AnonNoLevel(uid, row) ==
    /\ uid = NULL
    /\ row.phone = NULL
    /\ row.email = NULL
    /\ row.zalo = NULL
    /\ row.facebook = NULL
    /\ row.address = NULL

PublicReadForPublicNonContactPeople(uid, row) ==
    /\ row.privacy_level = 0
    /\ row.phone = NULL
    /\ row.email = NULL
    /\ row.zalo = NULL
    /\ row.facebook = NULL
    /\ row.address = NULL

\* Variant: privacy_level <= 2 instead of < 2.
AuthenticatedUsersCanReadNonPrivatePeople_AtMost2(uid, row) ==
    /\ uid # NULL
    /\ row.privacy_level <= 2

AuthenticatedUsersCanReadNonPrivatePeople(uid, row) ==
    /\ uid # NULL
    /\ row.privacy_level < 2

\* Variant: the role is compared with a name no profile carries.
AdminsCanReadAllPeople_WrongRole(uid, row) ==
    \E p \in profiles : p.user_id = uid /\ p.role = "administrator"

AdminsCanReadAllPeople(uid, row) ==
    \E p \in profiles : p.user_id = uid /\ p.role = "admin"

\* Variant: the policy this migration replaces, "Anyone can read families".
AuthenticatedCanReadFamilies_Anyone(uid, row) ==
    TRUE

AuthenticatedCanReadFamilies(uid, row) ==
    uid # NULL

AuthenticatedCanReadChildren(uid, row) ==
    uid # NULL

\* Variant: an event about a person is readable only below privacy_level 2.
AuthenticatedCanReadEvents_InheritLevel(uid, row) ==
    /\ uid # NULL
    /\ \/ row.person_id = NULL
       \/ people[row.person_id].privacy_level < 2

AuthenticatedCanReadEvents(uid, row) ==
    uid # NULL

AuthenticatedCanReadMedia(uid, row) ==
    uid # NULL

\* The row-level decision of a SELECT by actor on a row of table kind.
checkAccess(actor, kind, row) ==
    LET uid == AuthUid(actor) IN
    CASE kind = "profiles" -> AuthenticatedUsersCanReadProfiles(uid, row)
      [] kind = "people"   -> \/ PublicReadForPublicNonContactPeople(uid, row)
                              \/ AuthenticatedUsersCanReadNonPrivatePeople(uid, row)
                              \/ AdminsCanReadAllPeople(uid, row)
      [] kind = "families" -> AuthenticatedCanReadFamilies(uid, row)
      [] kind = "children" -> AuthenticatedCanReadChildren(uid, row)
      [] kind = "events"   -> AuthenticatedCanReadEvents(uid, row)
      [] kind = "media"    -> AuthenticatedCanReadMedia(uid, row)

\* Variant: biography and notes are withheld from a request without a session.
VisibleFields_StripBio(actor, kind, row) ==
    IF checkAccess(actor, kind, row)
    THEN IF actor = "Anonymous"
         THEN Columns(kind) \ {"biography", "notes"}
         ELSE Columns(kind)
    ELSE {}

\* Row-level security returns a visible row with every column of its table.
VisibleFields(actor, kind, row) ==
    IF checkAccess(actor, kind, row) THEN Columns(kind) ELSE {}

(***************************************************************************)
(* The person form.                                                        *)
(***************************************************************************)
\* What the privacy_level control of the form may hold when it is submitted.
RawPrivacyLevels == {"0", "1", "2", "3", "", "abc"}

\* JavaScript Number(val) on those values; NaN for a non-numeric string.
Number(val) ==
    CASE val = "0" -> [nan |-> FALSE, n |-> 0]
      [] val = "1" -> [nan |-> FALSE, n |-> 1]
      [] val = "2" -> [nan |-> FALSE, n |-> 2]
      [] val = "3" -> [nan |-> FALSE, n |-> 3]
      [] val = ""  -> [nan |-> FALSE, n |-> 0]
      [] OTHER     -> [nan |-> TRUE,  n |-> 0]

\* z.preprocess(Number, z.number()): any number passes, NaN does not.
requiredNumericString(val) ==
    [ok |-> ~Number(val).nan, value |-> Number(val).n]

\* The fields of the form the policies depend on.  A contact field left
\* blank is written to the row as NULL.
FormValues ==
    [ privacy_level : RawPrivacyLevels,
      is_living     : BOOLEAN,
      contact       : ContactBundles ]

personSchema(values) ==
    requiredNumericString(values.privacy_level).ok

defaultPersonValues ==
    [ privacy_level |-> "0",
      is_living     |-> TRUE,
      contact       |-> [f \in ContactFields |-> NULL] ]

\* Column default of people.privacy_level.
DefaultPrivacyLevel == 1

(***************************************************************************)
(* State.                                                                  *)
(***************************************************************************)
Init ==
    /\ people = [i \in {} |-> NULL]
    /\ events = {}
    /\ lastRead = NoRead
    /\ lastSweep = NoSweep
    /\ dialog = DialogInit
    /\ created = NoEvent

NextId == ToString(Cardinality(DOMAIN people) + 1)

InsertRow(row) ==
    [i \in DOMAIN people \cup {row.id} |-> IF i = row.id THEN row ELSE people[i]]

\* The person form is submitted: the validated values are stored as a new row.
SubmitPersonForm(values) ==
    /\ NextId \in PersonIds
    /\ personSchema(values)
    /\ people' = InsertRow(PersonRow(NextId,
                                     requiredNumericString(values.privacy_level).value,
                                     values.is_living, values.contact))
    /\ lastRead' = NoRead
    /\ lastSweep' = NoSweep
    /\ UNCHANGED <<events, dialog, created>>

\* A row is inserted without a privacy_level: the column default applies.
InsertPersonWithoutLevel(living, contact) ==
    /\ NextId \in PersonIds
    /\ people' = InsertRow(PersonRow(NextId, DefaultPrivacyLevel, living, contact))
    /\ lastRead' = NoRead
    /\ lastSweep' = NoSweep
    /\ UNCHANGED <<events, dialog, created>>

\* The person form is submitted for an existing row with its contact fields
\* changed: the validated values replace the row.
SubmitContactEdit(id, contact) ==
    LET values == [ privacy_level |-> ToString(people[id].privacy_level),
                    is_living     |-> people[id].is_living,
                    contact       |-> contact ]
    IN  /\ id \in DOMAIN people
        /\ personSchema(values)
        /\ people' = [people EXCEPT ![id] =
                         PersonRow(id,
                                   requiredNumericString(values.privacy_level).value,
                                   values.is_living, values.contact)]
        /\ lastRead' = NoRead
        /\ lastSweep' = NoSweep
        /\ UNCHANGED <<events, dialog, created>>

\* Variant: the facebook column is left out of the WHERE clause.
hasContactData_NoFacebook(row) ==
    \/ row.phone # NULL
    \/ row.email # NULL
    \/ row.zalo # NULL
    \/ row.address # NULL

hasContactData(row) ==
    \/ row.phone # NULL
    \/ row.email # NULL
    \/ row.zalo # NULL
    \/ row.facebook # NULL
    \/ row.address # NULL

\* Variant: SET privacy_level = privacy_level + 1 WHERE privacy_level < 2.
ReclassifyRow_Increment(row) ==
    IF row.privacy_level < 2 /\ row.is_living = TRUE /\ hasContactData(row)
    THEN [row EXCEPT !.privacy_level = @ + 1]
    ELSE row

\* Variant: the WHERE clause without the is_living test.
ReclassifyRow_IgnoreLiving(row) ==
    IF row.privacy_level = 0 /\ hasContactData(row)
    THEN [row EXCEPT !.privacy_level = 1]
    ELSE row

\* SEC-05: UPDATE people SET privacy_level = 1 WHERE ...
ReclassifyRow(row) ==
    IF row.privacy_level = 0 /\ row.is_living = TRUE /\ hasContactData(row)
    THEN [row EXCEPT !.privacy_level = 1]
    ELSE row

Sweep ==
    /\ people' = [i \in DOMAIN people |-> ReclassifyRow(people[i])]
    /\ lastRead' = NoRead
    /\ lastSweep' =
          IF lastSweep.runs = 0
          THEN [runs |-> 1, before |-> people, once |-> people']
          ELSE [lastSweep EXCEPT
                  !.runs = IF @ < MaxSweepRuns THEN @ + 1 ELSE @]
    /\ UNCHANGED <<events, dialog, created>>

\* The people the add-event dialog offers to operator: the search goes
\* through the SELECT policies, and only the deceased are listed.
filteredResults(operator) ==
    { i \in DOMAIN people :
        checkAccess(operator, "people", people[i]) /\ ~people[i].is_living }

\* handleSubmit: an event is created with person_id = selectedPerson?.id.
CreateEvent(operator, person_id) ==
    /\ operator \in {"Member", "Admin"}
    /\ person_id \in {NULL} \cup filteredResults(operator)
    /\ events' = events \cup {person_id}
    /\ lastRead' = NoRead
    /\ lastSweep' = NoSweep
    /\ UNCHANGED <<people, dialog, created>>

\* The rows a SELECT on a table ranges over.
RowsOf(kind) ==
    CASE kind = "people"   -> {people[i] : i \in DOMAIN people}
      [] kind = "events"   -> {[person_id |-> r] : r \in events}
      [] kind = "media"    -> {[person_id |-> r] : r \in {NULL} \cup DOMAIN people}
      [] kind = "profiles" -> profiles
      [] OTHER             -> {[id |-> 1]}

\* A SELECT by actor, seen on one row of the table.
Read(actor, kind, row) ==
    /\ row \in RowsOf(kind)
    /\ lastRead' = [ kind    |-> kind,
                     actor   |-> actor,
                     row     |-> row,
                     allowed |-> checkAccess(actor, kind, row),
                     fields  |-> VisibleFields(actor, kind, row) ]
    /\ lastSweep' = NoSweep
    /\ UNCHANGED <<people, events, dialog, created>>

Next ==
    \/ \E values \in FormValues : SubmitPersonForm(values)
    \/ \E living \in BOOLEAN, contact \in ContactBundles :
          InsertPersonWithoutLevel(living, contact)
    \/ \E id \in PersonIds, contact \in ContactBundles :
          SubmitContactEdit(id, contact)
    \/ Sweep
    \/ \E operator \in Actors, person_id \in {NULL} \cup PersonIds :
          CreateEvent(operator, person_id)
    \/ \E actor \in Actors, kind \in Kinds :
          \E row \in RowsOf(kind) : Read(actor, kind, row)

Spec == Init /\ [][Next]_vars

(***************************************************************************)
(* The add-event dialog.                                                   *)
(***************************************************************************)
\* Texts typed into the title field; title.trim() decides the submit.
TitleInputs == {"", "  ", "Hop ho"}

Trim(text) ==
    IF text = "  " THEN "" ELSE text

\* Texts typed into the lunar date field or held in a person's death_lunar.
LunarInputs == {"", "15/7", "abc"}

\* parseLunarString: truthy for a day/month text.
parseLunarString(value) ==
    value = "15/7"

\* The type selector: onValueChange sets eventType and nothing else.
setEventType(v) ==
    /\ dialog' = [dialog EXCEPT !.eventType = v]
    /\ UNCHANGED <<people, events, lastRead, lastSweep, created>>

setTitle(text) ==
    /\ dialog' = [dialog EXCEPT !.title = text]
    /\ UNCHANGED <<people, events, lastRead, lastSweep, created>>

validateLunar(value) ==
    /\ dialog' = [dialog EXCEPT !.eventLunar = value]
    /\ UNCHANGED <<people, events, lastRead, lastSweep, created>>

\* A search result is clicked.  The search box is rendered only while the
\* type is 'gio' and no person is selected.
handleSelectPerson(operator, id, death_lunar) ==
    /\ operator \in {"Member", "Admin"}
    /\ dialog.eventType = "gio"
    /\ dialog.selectedPerson = NULL
    /\ id \in filteredResults(operator)
    /\ dialog' =
          [dialog EXCEPT
             !.selectedPerson = id,
             !.title = IF dialog.eventType = "gio" THEN "Gio " \o id ELSE @,
             !.eventLunar = IF dialog.eventType = "gio" /\ death_lunar # ""
                            THEN death_lunar ELSE @]
    /\ UNCHANGED <<people, events, lastRead, lastSweep, created>>

\* The X button of the selected person, rendered only while the type is 'gio'.
handleClearPerson ==
    /\ dialog.eventType = "gio"
    /\ dialog.selectedPerson # NULL
    /\ dialog' = [dialog EXCEPT !.selectedPerson = NULL]
    /\ UNCHANGED <<people, events, lastRead, lastSweep, created>>

\* The form is submitted.  An empty title or an unparsable lunar date stops
\* it; createEvent either stores the event and the dialog closes, or fails
\* and the dialog stays as it is.
handleSubmit ==
    /\ Trim(dialog.title) # ""
    /\ dialog.eventLunar = "" \/ parseLunarString(dialog.eventLunar)
    /\ \/ /\ created' = [ event_type |-> dialog.eventType,
                          person_id  |-> dialog.selectedPerson ]
          /\ events' = events \cup {dialog.selectedPerson}
          /\ dialog' = DialogInit
          /\ lastRead' = NoRead
          /\ lastSweep' = NoSweep
          /\ UNCHANGED people
       \/ UNCHANGED vars

\* People tables the dialog is opened on: rows without contact data.
DialogCorpora ==
    { [i \in PersonIds |->
          PersonRow(i, f[i][1], f[i][2], [c \in ContactFields |-> NULL])]
        : f \in [PersonIds -> {1, 2} \X BOOLEAN] }

InitDialog ==
    /\ people \in DialogCorpora
    /\ events = {}
    /\ lastRead = NoRead
    /\ lastSweep = NoSweep
    /\ dialog = DialogInit
    /\ created = NoEvent

NextDialog ==
    \/ \E v \in EventTypes : setEventType(v)
    \/ \E text \in TitleInputs : setTitle(text)
    \/ \E value \in LunarInputs : validateLunar(value)
    \/ \E operator \in Actors, id \in PersonIds, death_lunar \in LunarInputs :
          handleSelectPerson(operator, id, death_lunar)
    \/ handleClearPerson
    \/ handleSubmit

SpecDialog == InitDialog /\ [][NextDialog]_vars

(***************************************************************************)
(* Properties.                                                             *)
(***************************************************************************)
ReadBy(actor, kind) ==
    /\ lastRead.kind = kind
    /\ lastRead.actor = actor

\* The modelled columns of the row as the reader receives them.
Returned ==
    [f \in lastRead.fields \cap DOMAIN lastRead.row |-> lastRead.row[f]]

NoContact(row) ==
    \A f \in ContactFields : row[f] = NULL

\* C1: a read of a person by Anonymous is allowed if and only if the person
\* has privacy_level 0 and every contact column is NULL.
C1_AnonymousReadsPerson ==
    ReadBy("Anonymous", "people") =>
        (lastRead.allowed <=>
            (lastRead.row.privacy_level = 0 /\ NoContact(lastRead.row)))

\* C1 witness: Anonymous was denied a privacy_level 0 person with a phone.
C1_Witness ==
    /\ ReadBy("Anonymous", "people")
    /\ lastRead.row.privacy_level = 0
    /\ lastRead.row.phone # NULL
    /\ ~lastRead.allowed

\* C2: a read of a person by a Member is allowed if and only if
\* privacy_level < 2, and an allowed read carries the contact columns.
C2_MemberReadsPerson ==
    ReadBy("Member", "people") =>
        /\ lastRead.allowed <=> lastRead.row.privacy_level < 2
        /\ lastRead.allowed =>
              /\ ContactFields \subseteq lastRead.fields
              /\ \A f \in ContactFields : Returned[f] = lastRead.row[f]

\* C2 witness: a Member read a privacy_level 1 person and got the phone.
C2_Witness ==
    /\ ReadBy("Member", "people")
    /\ lastRead.row.privacy_level = 1
    /\ lastRead.allowed
    /\ Returned["phone"] # NULL

\* C3: Admin is allowed on every row of every table with every column, so
\* whatever any reader was given, Admin is given at least that.
C3_AdminReadsEverything ==
    /\ \A kind \in Kinds : \A row \in RowsOf(kind) :
          /\ checkAccess("Admin", kind, row)
          /\ VisibleFields("Admin", kind, row) = Columns(kind)
    /\ (lastRead.kind # "none" /\ lastRead.actor = "Admin") =>
          (lastRead.allowed /\ lastRead.fields = Columns(lastRead.kind))
    /\ (lastRead.kind # "none" /\ lastRead.allowed) =>
          /\ checkAccess("Admin", lastRead.kind, lastRead.row)
          /\ lastRead.fields \subseteq
                VisibleFields("Admin", lastRead.kind, lastRead.row)

\* C3 witness: Admin read a privacy_level 2 person holding contact data.
C3_Witness ==
    /\ ReadBy("Admin", "people")
    /\ lastRead.row.privacy_level = 2
    /\ ~NoContact(lastRead.row)
    /\ lastRead.allowed
    /\ ContactFields \subseteq lastRead.fields

\* C4: a profile is denied to Anonymous and allowed to Member and Admin.
C4_ProfileReads ==
    lastRead.kind = "profiles" =>
        (lastRead.allowed <=> lastRead.actor # "Anonymous")

\* C4 witness: Anonymous was denied a profile.
C4_Witness ==
    /\ ReadBy("Anonymous", "profiles")
    /\ ~lastRead.allowed

\* A family, a child link, or an event or media row with no person_id.
Structural(read) ==
    \/ read.kind \in {"families", "children"}
    \/ read.kind \in {"events", "media"} /\ read.row.person_id = NULL

\* C5: a structural row is denied to Anonymous and allowed to a Member
\* with every column.
C5_StructuralReads ==
    Structural(lastRead) =>
        /\ lastRead.actor = "Anonymous" => ~lastRead.allowed
        /\ lastRead.actor = "Member" =>
              (lastRead.allowed /\ lastRead.fields = Columns(lastRead.kind))

\* C5 witness: Anonymous was denied a family row.
C5_Witness ==
    /\ ReadBy("Anonymous", "families")
    /\ ~lastRead.allowed

\* An event or media row about a person of the people table.
RefersToPerson(read) ==
    /\ read.kind \in {"events", "media"}
    /\ read.row.person_id # NULL

\* C6 as stated: a Member is denied every event or media row whose person
\* has privacy_level 2.
C6_Original ==
    (RefersToPerson(lastRead) /\ lastRead.actor = "Member"
       /\ people[lastRead.row.person_id].privacy_level = 2)
    => ~lastRead.allowed

\* C6 amended: an event or media row about a person is decided by the
\* session alone, whatever the person's privacy_level and contact data: it
\* is allowed, with every column, exactly when the reader is not Anonymous.
C6_ReferencedByAuthOnly ==
    RefersToPerson(lastRead) =>
        /\ lastRead.allowed <=> lastRead.actor # "Anonymous"
        /\ lastRead.allowed => lastRead.fields = Columns(lastRead.kind)

\* C6 witness: a Member read an event about a privacy_level 2 person.
C6_Witness ==
    /\ ReadBy("Member", "events")
    /\ lastRead.row.person_id # NULL
    /\ people[lastRead.row.person_id].privacy_level = 2
    /\ lastRead.allowed

\* C7: what Anonymous receives of a person never holds a value in phone,
\* email, zalo, facebook or address.
C7_NoContactLeak ==
    ReadBy("Anonymous", "people") =>
        \A f \in ContactFields \cap DOMAIN Returned : Returned[f] = NULL

\* C7 witness: Anonymous received a person row.
C7_Witness ==
    /\ ReadBy("Anonymous", "people")
    /\ lastRead.allowed
    /\ ContactFields \subseteq DOMAIN Returned

\* C8 as stated: an allowed read of a person by Anonymous shows name and
\* generation and hides biography and notes.
C8_Original ==
    (ReadBy("Anonymous", "people") /\ lastRead.allowed) =>
        /\ {"display_name", "generation"} \subseteq lastRead.fields
        /\ {"biography", "notes"} \cap lastRead.fields = {}

\* C8 amended: an allowed read of a person by Anonymous shows the whole
\* row: name and generation, and biography and notes as well.
C8_WholeRowVisible ==
    (ReadBy("Anonymous", "people") /\ lastRead.allowed) =>
        /\ lastRead.fields = PeopleColumns
        /\ {"display_name", "generation", "biography", "notes"}
              \subseteq lastRead.fields

\* C8 witness: Anonymous read a privacy_level 0 person of the deceased
\* with no contact data and was shown biography and notes.
C8_Witness ==
    /\ ReadBy("Anonymous", "people")
    /\ lastRead.row.privacy_level = 0
    /\ ~lastRead.row.is_living
    /\ NoContact(lastRead.row)
    /\ lastRead.allowed
    /\ "biography" \in lastRead.fields

\* C9: a person denied to a Member is denied to Anonymous.
C9_TierMonotonicity ==
    \A i \in DOMAIN people :
        ~checkAccess("Member", "people", people[i])
            => ~checkAccess("Anonymous", "people", people[i])

\* C9 witness: a Member was denied a person that holds no contact data.
C9_Witness ==
    /\ ReadBy("Member", "people")
    /\ ~lastRead.allowed
    /\ NoContact(lastRead.row)

\* C10 as stated: a person created without a privacy_level, or through the
\* form left at its default values, is stored with privacy_level 1.
C10_DefaultTierIsOne ==
    [][ ( \/ \E living \in BOOLEAN, contact \in ContactBundles :
                InsertPersonWithoutLevel(living, contact)
          \/ SubmitPersonForm(defaultPersonValues) )
        => people'[NextId].privacy_level = 1 ]_vars

\* A public row of a living person that holds contact data.
PublicLivingWithContact(row) ==
    /\ row.privacy_level = 0
    /\ row.is_living
    /\ ~NoContact(row)

\* C11 as stated: no read returns a person with privacy_level 0, is_living
\* and a contact column that is not NULL, whatever writes and runs of the
\* SEC-05 UPDATE came before it.
C11_NoReadOfPublicLivingContact ==
    (lastRead.kind = "people" /\ lastRead.allowed)
        => ~PublicLivingWithContact(lastRead.row)

\* C12: a run of the SEC-05 UPDATE that follows another run leaves the
\* people table as the first run left it.
C12_SweepIdempotent ==
    lastSweep.runs >= 2 => people = lastSweep.once

\* C12 witness: the UPDATE ran twice in a row and its first run rewrote a row.
C12_Witness ==
    /\ lastSweep.runs >= 2
    /\ lastSweep.before # lastSweep.once

\* C13: after a run of the SEC-05 UPDATE every person that was public,
\* living and with contact data has privacy_level 1, and no such person is
\* left in the table.
C13_SweepTightens ==
    lastSweep.runs >= 1 =>
        /\ \A i \in DOMAIN lastSweep.before :
              PublicLivingWithContact(lastSweep.before[i])
                  => people[i].privacy_level = 1
        /\ \A i \in DOMAIN people : ~PublicLivingWithContact(people[i])

\* C13 witness: one run moved a public living person with contact data to 1.
C13_Witness ==
    /\ lastSweep.runs = 1
    /\ \E i \in DOMAIN lastSweep.before :
          /\ PublicLivingWithContact(lastSweep.before[i])
          /\ people[i].privacy_level = 1

\* C14: the SEC-05 UPDATE never lowers a privacy_level, leaves every row
\* that is at level 1 or 2, not living or without contact data as it was,
\* and changes nothing but privacy_level in the rows it rewrites.
C14_SweepFrame ==
    lastSweep.runs >= 1 =>
        /\ DOMAIN people = DOMAIN lastSweep.before
        /\ \A i \in DOMAIN people :
              LET old == lastSweep.before[i] IN
              /\ people[i].privacy_level >= old.privacy_level
              /\ ( \/ old.privacy_level \in {1, 2}
                   \/ ~old.is_living
                   \/ NoContact(old) ) => people[i] = old
              /\ people[i] = [old EXCEPT !.privacy_level = people[i].privacy_level]

\* C14 witness: a run left a public row of a deceased person with contact
\* data untouched.
C14_Witness ==
    /\ lastSweep.runs >= 1
    /\ \E i \in DOMAIN people :
          /\ lastSweep.before[i].privacy_level = 0
          /\ ~lastSweep.before[i].is_living
          /\ ~NoContact(lastSweep.before[i])
          /\ people[i] = lastSweep.before[i]

\* C15 as stated: every stored person has privacy_level 0, 1 or 2.
C15_StoredTierInRange ==
    \A i \in DOMAIN people : people[i].privacy_level \in {0, 1, 2}

\* C16 as stated: the dialog creates an event with a person_id only while
\* the event type is 'gio'.
C16_PersonOnlyForGio ==
    (created.event_type # "none" /\ created.person_id # NULL)
        => created.event_type = "gio"

====
